---- MODULE Spec2Model ----
(***************************************************************************)
(* Model of vogel/utils/stats/stats.py: the weighted model statistics      *)
(* (weighted_gini, weighted_rmse, deviance_tweedie, hl_tweedie_df,         *)
(* hl_tweedie) and the report builders model_stats_reg and                 *)
(* model_stats_tweedie.                                                    *)
(*                                                                         *)
(* Arrays are sequences (position 1 of a sequence is numpy index 0) of     *)
(* floating point numbers.  Numbers are exact rationals; all quantities    *)
(* are expressed in units of the clamping epsilon 1e-7, so that the        *)
(* epsilon itself is the number 1 and every positive input is larger than  *)
(* it.  A floating point result is a record [k, n, d]: k = "num" is the    *)
(* rational n/d in lowest terms with d > 0, k = "sqrt" is its square root, *)
(* k = "nan" is NaN and k = "inf" is the infinity of sign n.               *)
(***************************************************************************)
EXTENDS Integers, Sequences, FiniteSets, TLC

VARIABLES
    weight, actual, predicted,  \* the caller's three arrays
    train_set, valid_set,       \* the caller's two mappings
    call,                       \* the function called last
    args,                       \* its arguments as they were when it was called, and
                                \* the sort orders it drew
    result,                     \* what that call returned or raised
    history                     \* the reports returned so far, in order

vars == <<weight, actual, predicted, train_set, valid_set, call, args, result, history>>

(* ------------------------------ bounds -------------------------------- *)
MaxLen == 2
MaxBins == 3
MaxRows == 2
MaxCalls == 2

WeightVals == {0, 1, 2}
ActualVals == {-1, 0, 2}
PredVals == {-2, 0, 2}
HlActualVals == {0, 2}
PowerVals == {1, 2}

\* phi=1.0, the default dispersion of hl_tweedie
DefaultPhi == 1

\* bins=10, the default number of bins of hl_tweedie
DefaultBins == 10

\* train_phi = valid_phi = 6000 in model_stats_tweedie
PlaceholderPhi == 6000

(* ------------------------- floating point ----------------------------- *)
RECURSIVE Gcd(_, _)
Gcd(a, b) == IF b = 0 THEN a ELSE Gcd(b, a % b)

Abs(x) == IF x < 0 THEN -x ELSE x

Sign(x) == IF x < 0 THEN -1 ELSE IF x = 0 THEN 0 ELSE 1

NaN == [k |-> "nan", n |-> 0, d |-> 1]

Inf(s) == [k |-> "inf", n |-> s, d |-> 1]

Num(n, d) ==
    LET g == Gcd(Abs(n), Abs(d))
    IN  [k |-> "num", n |-> (Sign(d) * n) \div g, d |-> Abs(d) \div g]

Int2F(x) == [k |-> "num", n |-> x, d |-> 1]

\* IEEE division as numpy performs it: 0/0 and inf/inf are NaN, x/0 is an
\* infinity (a RuntimeWarning, no exception).
FDiv(a, b) ==
    IF a.k = "nan" \/ b.k = "nan" THEN NaN
    ELSE IF a.k = "inf"
         THEN IF b.k = "inf" THEN NaN
              ELSE [a EXCEPT !.n = a.n * (IF b.n < 0 THEN -1 ELSE 1)]
    ELSE IF b.k = "inf" THEN Int2F(0)
    ELSE IF b.n = 0
         THEN IF a.n = 0 THEN NaN ELSE Inf(Sign(a.n))
    ELSE Num(a.n * b.d, a.d * b.n)

FMul(a, b) ==
    IF a.k = "nan" \/ b.k = "nan" THEN NaN
    ELSE IF a.k = "inf" \/ b.k = "inf"
         THEN IF a.n = 0 \/ b.n = 0 THEN NaN ELSE Inf(Sign(a.n) * Sign(b.n))
    ELSE Num(a.n * b.n, a.d * b.d)

FAdd(a, b) ==
    IF a.k = "nan" \/ b.k = "nan" THEN NaN
    ELSE IF a.k = "inf"
         THEN IF b.k = "inf" /\ b.n # a.n THEN NaN ELSE a
    ELSE IF b.k = "inf" THEN b
    ELSE Num(a.n * b.d + b.n * a.d, a.d * b.d)

FSub(a, b) == FAdd(a, [b EXCEPT !.n = -b.n])

FAbs(a) == [a EXCEPT !.n = Abs(a.n)]

\* np.power(a, e) for e = 1 or e = 2
FPow(a, e) == IF e = 1 THEN a ELSE FMul(a, a)

\* The sum of a sequence of floats, left to right from 0.0
RECURSIVE FSum(_)
FSum(s) == IF s = <<>> THEN Int2F(0) ELSE FAdd(FSum(SubSeq(s, 1, Len(s) - 1)), s[Len(s)])

\* np.sqrt of a float: the root of a non-negative rational n/d is kept as the
\* symbolic value [k |-> "sqrt", n, d]; the root of a negative number is NaN.
FSqrt(a) ==
    IF a.k = "num" THEN (IF a.n < 0 THEN NaN ELSE [a EXCEPT !.k = "sqrt"])
    ELSE IF a.k = "inf" /\ a.n < 0 THEN NaN
    ELSE a

(* ------------------------------ numpy --------------------------------- *)
Ok(v) == [status |-> "ok", value |-> v]

Raise(e) == [status |-> "raise", value |-> e]

\* The array with the entries f[1], f[2], ..., each computed once.
Array(f) == <<>> \o f

RECURSIVE SumSeq(_)
SumSeq(s) == IF s = <<>> THEN 0 ELSE s[1] + SumSeq(Tail(s))

\* np.cumsum
cumsum(a) == Array([i \in 1..Len(a) |-> SumSeq(SubSeq(a, 1, i))])

\* np.ones(n)
ones(n) == Array([i \in 1..n |-> 1])

\* Elementwise arithmetic of two 1-d arrays broadcasts a length-1 operand and
\* raises ValueError for any other pair of different lengths.
BroadcastOk(a, b) == Len(a) = Len(b) \/ Len(a) = 1 \/ Len(b) = 1

BroadcastLen(a, b) == IF Len(a) = 1 THEN Len(b) ELSE Len(a)

At(a, i) == IF Len(a) = 1 THEN a[1] ELSE a[i]

ArrMul(a, b) == Array([i \in 1..BroadcastLen(a, b) |-> At(a, i) * At(b, i)])

ArrSub(a, b) == Array([i \in 1..BroadcastLen(a, b) |-> At(a, i) - At(b, i)])

\* The orders np.argsort(predicted)[::-1] can return: predicted is
\* non-increasing along the order; the order among equal values is whatever
\* the (unstable) default sort leaves.
Orders(n) == {s \in [1..n -> 1..n] : \A i, j \in 1..n : s[i] = s[j] => i = j}

argsort_desc(a) ==
    {s \in Orders(Len(a)) : \A i \in 1..(Len(a) - 1) : a[s[i]] >= a[s[i + 1]]}

\* a[sort_index]: selection by an index array
Take(a, sort_index) == Array([i \in 1..Len(sort_index) |-> a[sort_index[i]]])

InRange(a, sort_index) == \A i \in 1..Len(sort_index) : sort_index[i] <= Len(a)

(* --------------------------- weighted_gini ---------------------------- *)
\* sum(cumulative_weight[1:] * cumulative_actual[:-1])
gini_sum_a(cw, ca) == SumSeq([i \in 1..(Len(cw) - 1) |-> cw[i + 1] * ca[i]])

\* sum(cumulative_weight[:-1] * cumulative_actual[1:])
gini_sum_b(cw, ca) == SumSeq([i \in 1..(Len(cw) - 1) |-> cw[i] * ca[i + 1]])

\* lines 34-35 on the cumulative sums
gini_rescale_guarded(cw, ca) ==
    IF cw[Len(cw)] * ca[Len(ca)] = 0 THEN Int2F(0)
    ELSE FAbs(FDiv(Int2F(gini_sum_b(cw, ca) - gini_sum_a(cw, ca)),
                   Int2F(cw[Len(cw)] * ca[Len(ca)])))

\* line 34 dividing by the total of the weighted actuals alone
gini_rescale_by_actual(cw, ca) ==
    FAbs(FDiv(Int2F(gini_sum_b(cw, ca) - gini_sum_a(cw, ca)), Int2F(ca[Len(ca)])))

\* line 35 returning gini itself
gini_rescale_signed(cw, ca) ==
    FDiv(Int2F(gini_sum_b(cw, ca) - gini_sum_a(cw, ca)),
         Int2F(cw[Len(cw)] * ca[Len(ca)]))

gini_rescale(cw, ca) ==
    FAbs(FDiv(Int2F(gini_sum_b(cw, ca) - gini_sum_a(cw, ca)),
              Int2F(cw[Len(cw)] * ca[Len(ca)])))

\* sort_index is the order line 24 draws from predicted (p0)
weighted_gini(w0, a0, p0, sort_index) ==
    IF ~InRange(w0, sort_index) \/ ~InRange(a0, sort_index) THEN Raise("IndexError")
    ELSE IF Len(sort_index) = 0 THEN Raise("IndexError")
    ELSE LET w == Take(w0, sort_index)
             a == Take(a0, sort_index)
         IN  Ok(gini_rescale(cumsum(w), cumsum(ArrMul(w, a))))

(* --------------------------- weighted_rmse ---------------------------- *)
\* np.power(actual - predicted, 2)
SqErr(a0, p0) == LET diff == ArrSub(a0, p0) IN ArrMul(diff, diff)

weighted_rmse(w0, a0, p0) ==
    IF ~BroadcastOk(a0, p0) THEN Raise("ValueError")
    ELSE LET sq == SqErr(a0, p0)
         IN  IF ~BroadcastOk(w0, sq) THEN Raise("ValueError")
             ELSE Ok(FSqrt(FDiv(Int2F(SumSeq(ArrMul(w0, sq))), Int2F(SumSeq(w0)))))

(* ------------------------ the clamped local copy --------------------- *)
\* The clamping epsilon .0000001, the unit in which every quantity is expressed.
Eps == 1

\* predicted.copy(): the name of the array object the copy is.
ndarray_copy_alias(obj) == obj

ndarray_copy(obj) == "predicted_temp"

\* a[a <= 0] = Eps
Clamped(a) == Array([i \in 1..Len(a) |-> IF a[i] <= 0 THEN Eps ELSE a[i]])

\* predicted_temp = predicted.copy(); predicted_temp[predicted_temp <= 0] = Eps
\* The result is the store of array objects after the two statements: the
\* caller's array is the object "predicted", and the name predicted_temp is
\* bound to the object the copy returned.
clamp_local(p0) ==
    [[predicted |-> p0, predicted_temp |-> p0]
        EXCEPT ![ndarray_copy("predicted")] = Clamped(p0)]

local_of(store) == store[ndarray_copy("predicted")]

(* -------------------- DescrStatsW(...).quantile(...) ------------------ *)
Min(S) == CHOOSE x \in S : \A y \in S : x <= y

RECURSIVE SortedSeq(_)
SortedSeq(S) == IF S = {} THEN <<>> ELSE <<Min(S)>> \o SortedSeq(S \ {Min(S)})

\* The distinct values of p0, ascending, and the total weight of each.
TieValues(p0) == SortedSeq({p0[i] : i \in 1..Len(p0)})

TieWeights(p0, w0, values) ==
    Array([j \in 1..Len(values) |->
             SumSeq([i \in 1..Len(p0) |-> IF p0[i] = values[j] THEN w0[i] ELSE 0])])

\* The quantile at probability k/bins, DOUBLED (it may be the midpoint of two
\* neighbouring values): the first value whose cumulated weight reaches the
\* target k/bins * total, or the midpoint to the next value when the target is
\* hit exactly.  ii is the numpy index np.searchsorted(cweights, target) + 1.
CutPoint2(values, cweights, bins, k, ii) ==
    IF k * cweights[Len(cweights)] = bins * cweights[ii] /\ ii < Len(cweights)
    THEN values[ii] + values[ii + 1]
    ELSE 2 * values[ii]

CutPoints2(values, cweights, bins) ==
    Array([k \in 1..(bins - 1) |->
             CutPoint2(values, cweights, bins, k,
                       1 + Cardinality({j \in 1..Len(cweights) :
                                          bins * cweights[j] < k * cweights[Len(cweights)]}))])

\* The weighted quantiles of p0 at the probabilities 1/bins .. (bins-1)/bins,
\* each doubled.
quantile2(p0, w0, bins) ==
    LET values == TieValues(p0)
    IN  CutPoints2(values, cumsum(TieWeights(p0, w0, values)), bins)

(* ---------------------------- np.searchsorted ------------------------- *)
\* Binary search for the insertion point of v in the sorted array qs, counted
\* from 0: lo and hi are numpy indices.  side='left' is the default.
RECURSIVE bisect_right(_, _, _, _)
bisect_right(qs, v, lo, hi) ==
    IF lo >= hi THEN lo
    ELSE IF qs[lo + ((hi - lo) \div 2) + 1] <= v
         THEN bisect_right(qs, v, lo + ((hi - lo) \div 2) + 1, hi)
    ELSE bisect_right(qs, v, lo, lo + ((hi - lo) \div 2))

RECURSIVE bisect_left(_, _, _, _)
bisect_left(qs, v, lo, hi) ==
    IF lo >= hi THEN lo
    ELSE IF qs[lo + ((hi - lo) \div 2) + 1] < v
         THEN bisect_left(qs, v, lo + ((hi - lo) \div 2) + 1, hi)
    ELSE bisect_left(qs, v, lo, lo + ((hi - lo) \div 2))

\* np.searchsorted(qs, a) for cut points given doubled
searchsorted2(qs2, a) ==
    Array([i \in 1..Len(a) |-> bisect_left(qs2, 2 * a[i], 0, Len(qs2))])

(* ----------------------------- hl_tweedie_df -------------------------- *)
\* pd.DataFrame({'weight', 'actual', 'predicted', 'quantile'}) as its rows
DataFrame(w, a, p, q) ==
    Array([i \in 1..Len(p) |-> [weight |-> w[i], actual |-> a[i], predicted |-> p[i],
                                quantile |-> q[i]]])

\* The search of line 85 is made with the name predicted, the caller's array.
df_of_store(w0, a0, store, bins) ==
    DataFrame(w0, a0, local_of(store),
              searchsorted2(quantile2(store.predicted, w0, bins), store.predicted))

\* Returns [ret, predicted]: what the call returns or raises, and the caller's
\* predicted array after the call.
hl_tweedie_df(w0, a0, p0, bins) ==
    LET store == clamp_local(p0)
    IN  [ret |-> IF Len(w0) # Len(p0) THEN Raise("ValueError")
                 ELSE IF Len(p0) = 0 THEN Raise("IndexError")
                 ELSE IF Len(a0) # Len(p0) THEN Raise("ValueError")
                 ELSE Ok(df_of_store(w0, a0, store, bins)),
         predicted |-> store.predicted]

(* ------------------------ chi_sq_tweedie, hl_tweedie ------------------ *)
weighted_average(x, w) == FDiv(Int2F(SumSeq(ArrMul(x, w))), Int2F(SumSeq(w)))

Column(grp, c) == Array([i \in 1..Len(grp) |-> grp[i][c]])

\* line 72-73
chi_sq_term(wavg_actual, wavg_predicted, sum_weight, phi, p) ==
    FDiv(FPow(FSub(wavg_actual, wavg_predicted), 2),
         FDiv(FMul(Int2F(phi), FPow(wavg_predicted, p)), Int2F(sum_weight)))

\* inner(grp) of chi_sq_tweedie(phi, p); grp is a sequence of rows
chi_sq_tweedie(phi, p, grp) ==
    chi_sq_term(weighted_average(Column(grp, "actual"), Column(grp, "weight")),
                weighted_average(Column(grp, "predicted"), Column(grp, "weight")),
                SumSeq(Column(grp, "weight")), phi, p)

\* The rows of df whose quantile is q, in order.
RECURSIVE RowsOf(_, _)
RowsOf(df, q) ==
    IF df = <<>> THEN <<>>
    ELSE (IF df[1].quantile = q THEN <<df[1]>> ELSE <<>>) \o RowsOf(Tail(df), q)

GroupKeys(df) == SortedSeq({df[i].quantile : i \in 1..Len(df)})

\* df.groupby('quantile').apply(f): one value per quantile present, ascending
groupby_apply(df, phi, p) ==
    LET keys == GroupKeys(df)
    IN  Array([j \in 1..Len(keys) |-> chi_sq_tweedie(phi, p, RowsOf(df, keys[j]))])

\* Series.sum(): NaN entries are skipped (skipna=True); an empty sum is 0.
series_sum_keepna(s) == FSum(s)

RECURSIVE series_sum(_)
series_sum(s) ==
    IF s = <<>> THEN Int2F(0)
    ELSE IF s[1].k = "nan" THEN series_sum(Tail(s))
    ELSE FAdd(s[1], series_sum(Tail(s)))

hl_of_df(df, phi, p) ==
    [ret |-> IF df.ret.status = "raise" THEN df.ret
             ELSE Ok(series_sum(groupby_apply(df.ret.value, phi, p))),
     predicted |-> df.predicted]

hl_tweedie(w0, a0, p0, bins, phi, p) == hl_of_df(hl_tweedie_df(w0, a0, p0, bins), phi, p)

(* ---------------------------- deviance_tweedie ------------------------ *)
\* The Tweedie deviance itself is the statistics library's; its value is kept
\* as the application of the primitive to the arguments the code passes.
tweedie_deviance(endog, mu, freq_weights, var_power) ==
    IF ~BroadcastOk(endog, mu) \/ ~BroadcastOk(ArrSub(endog, mu), freq_weights)
    THEN Raise("ValueError")
    ELSE Ok([k |-> "deviance", var_power |-> var_power, endog |-> endog, mu |-> mu,
             freq_weights |-> freq_weights])

deviance_tweedie(a0, p0, w0, p) ==
    LET store == clamp_local(p0)
    IN  [ret |-> tweedie_deviance(a0, local_of(store), w0, p),
         predicted |-> store.predicted]

(* ------------------ the statistics called on three arrays ------------- *)
Arrays(S) == UNION {[1..n -> S] : n \in 0..MaxLen}

Fill(m, v) == Array([i \in 1..m |-> v])

None == [None |-> TRUE]

NoArgs == [bins |-> 0, phi |-> 0, p |-> 0, sort_index |-> <<>>, predicted |-> <<>>]

\* weighted_gini and weighted_rmse are called on arrays of any three lengths.
Init ==
    /\ weight \in Arrays(WeightVals)
    /\ actual \in Arrays(ActualVals)
    /\ predicted \in Arrays(PredVals)
    /\ train_set = None
    /\ valid_set = None
    /\ call = "none"
    /\ args = NoArgs
    /\ result = Ok(None)
    /\ history = <<>>

\* Each behaviour is one call of one of the functions on the arrays drawn.
WeightedGini ==
    \E sort_index \in argsort_desc(predicted) :
        /\ call = "none"
        /\ call' = "weighted_gini"
        /\ args' = [NoArgs EXCEPT !.sort_index = sort_index]
        /\ result' = weighted_gini(weight, actual, predicted, sort_index)
        /\ UNCHANGED <<weight, actual, predicted, train_set, valid_set, history>>

WeightedRmse ==
    /\ call = "none"
    /\ call' = "weighted_rmse"
    /\ args' = NoArgs
    /\ result' = weighted_rmse(weight, actual, predicted)
    /\ UNCHANGED <<weight, actual, predicted, train_set, valid_set, history>>

Next == WeightedGini \/ WeightedRmse

Spec == Init /\ [][Next]_vars

\* The functions that clamp predicted are called on three arrays of one
\* length, or with a weight or actual array of another length in their place.
InitHl ==
    /\ predicted \in Arrays(PredVals)
    /\ weight \in [1..Len(predicted) -> WeightVals] \cup {Fill(m, 1) : m \in 0..MaxLen}
    /\ actual \in [1..Len(predicted) -> HlActualVals] \cup {Fill(m, 2) : m \in 0..MaxLen}
    /\ train_set = None
    /\ valid_set = None
    /\ call = "none"
    /\ args = NoArgs
    /\ result = Ok(None)
    /\ history = <<>>

HlTweedieDf ==
    \E bins \in 1..MaxBins :
        /\ call = "none"
        /\ call' = "hl_tweedie_df"
        /\ args' = [NoArgs EXCEPT !.bins = bins, !.predicted = predicted]
        /\ LET r == hl_tweedie_df(weight, actual, predicted, bins)
           IN  result' = r.ret /\ predicted' = r.predicted
        /\ UNCHANGED <<weight, actual, train_set, valid_set, history>>

HlTweedie ==
    \E bins \in 1..MaxBins, p \in PowerVals :
        /\ call = "none"
        /\ call' = "hl_tweedie"
        /\ args' = [NoArgs EXCEPT !.bins = bins, !.phi = DefaultPhi, !.p = p,
                                 !.predicted = predicted]
        /\ LET r == hl_tweedie(weight, actual, predicted, bins, DefaultPhi, p)
           IN  result' = r.ret /\ predicted' = r.predicted
        /\ UNCHANGED <<weight, actual, train_set, valid_set, history>>

DevianceTweedie ==
    \E p \in PowerVals :
        /\ call = "none"
        /\ call' = "deviance_tweedie"
        /\ args' = [NoArgs EXCEPT !.p = p, !.predicted = predicted]
        /\ LET r == deviance_tweedie(actual, predicted, weight, p)
           IN  result' = r.ret /\ predicted' = r.predicted
        /\ UNCHANGED <<weight, actual, train_set, valid_set, history>>

NextHl == HlTweedieDf \/ HlTweedie \/ DevianceTweedie

SpecHl == InitHl /\ [][NextHl]_vars

(* ------------------------------ mappings ------------------------------ *)
EmptyDict == <<>>

DictSet(d, k, v) == [x \in (DOMAIN d) \cup {k} |-> IF x = k THEN v ELSE d[x]]

\* A subscription d[k] of a mapping inside an expression r
subscript(d, k, r) == IF k \notin DOMAIN d THEN Raise("KeyError") ELSE r

(* ----------------------- sklearn.metrics primitives ------------------- *)
\* Both raise ValueError for inputs of different lengths or without samples.
mean_squared_error(y, pred) ==
    IF Len(y) # Len(pred) \/ Len(y) = 0 THEN Raise("ValueError")
    ELSE Ok(FDiv(Int2F(SumSeq(SqErr(y, pred))), Int2F(Len(y))))

mean_absolute_error(y, pred) ==
    IF Len(y) # Len(pred) \/ Len(y) = 0 THEN Raise("ValueError")
    ELSE Ok(FDiv(Int2F(SumSeq([i \in 1..Len(y) |-> Abs(y[i] - pred[i])])), Int2F(Len(y))))

\* np.sqrt(mean_squared_error(...))
rmse(y, pred) ==
    LET mse == mean_squared_error(y, pred)
    IN  IF mse.status = "raise" THEN mse ELSE Ok(FSqrt(mse.value))

(* ------------------------- blocks of statements ----------------------- *)
\* The statement out_dict[split][key] = [r]
Stmt(split, key, r) == [split |-> split, key |-> key, r |-> r]

\* One statement executed in the state st = [out_dict, exc]: out_dict is left
\* alone when computing r raises.
assign(st, stmt) ==
    IF stmt.r.status = "raise" THEN [st EXCEPT !.exc = stmt.r.value]
    ELSE [st EXCEPT !.out_dict[stmt.split] = DictSet(@, stmt.key, <<stmt.r.value>>)]

\* The statements stmts[i..] executed in order; the first exception ends the block.
RECURSIVE block(_, _, _)
block(stmts, i, st) ==
    IF i > Len(stmts) \/ st.exc # "none" THEN st
    ELSE block(stmts, i + 1, assign(st, stmts[i]))

(* ---------------------------- model_stats_reg ------------------------- *)
has_weight_supplied(ts) == "w" \in DOMAIN ts

\* has_weight as lines 122-124 set it
has_weight(ts) == "w" \notin DOMAIN ts

fill_weight_own_length(ts, vs) ==
    IF "w" \notin DOMAIN ts THEN DictSet(ts, "w", ones(Len(ts.y))) ELSE ts

\* train_set after lines 123-127
fill_weight(ts, vs) ==
    IF "w" \notin DOMAIN ts
    THEN DictSet(ts, "w", IF vs # None THEN ones(Len(vs.y)) ELSE ones(Len(ts.y)))
    ELSE ts

\* lines 131-153
train_statements(ts, hw, si_t) ==
    <<Stmt("train", "rmse", rmse(ts.y, ts.pred)),
      Stmt("train", "mae", mean_absolute_error(ts.y, ts.pred)),
      Stmt("train", "gini", weighted_gini(ts.w, ts.y, ts.pred, si_t))>>
    \o (IF hw THEN <<Stmt("train", "weighted_rmse", weighted_rmse(ts.w, ts.y, ts.pred))>>
        ELSE <<>>)

\* lines 156-166
valid_statements(vs, si_v) ==
    IF vs = None THEN <<>>
    ELSE <<Stmt("valid", "rmse", rmse(vs.y, vs.pred)),
           Stmt("valid", "mae", mean_absolute_error(vs.y, vs.pred)),
           Stmt("valid", "gini",
                subscript(vs, "w", weighted_gini(vs.w, vs.y, vs.pred, si_v))),
           Stmt("valid", "weighted_rmse",
                subscript(vs, "w", weighted_rmse(vs.w, vs.y, vs.pred)))>>

\* except Exception as e: print(...); the function goes on to return out_dict
except_reraise(st) == IF st.exc = "none" THEN Ok(st.out_dict) ELSE Raise(st.exc)

except_Exception(st) == Ok(st.out_dict)

NewReport == [out_dict |-> [train |-> EmptyDict, valid |-> EmptyDict], exc |-> "none"]

\* Returns [ret, train_set]: what the call returns or raises and the caller's
\* train_set mapping after the call.  si_t and si_v are the sort orders the
\* two weighted_gini calls draw.
model_stats_reg(ts0, vs, si_t, si_v) ==
    LET ts == fill_weight(ts0, vs)
    IN  [ret |-> except_Exception(
                    block(train_statements(ts, has_weight(ts0), si_t)
                            \o valid_statements(vs, si_v),
                          1, NewReport)),
         train_set |-> ts]

(* -------------------------- model_stats_tweedie ----------------------- *)
\* The mapping ds after deviance_tweedie and hl_tweedie were called on its arrays
after_tweedie(ds, p) ==
    IF ds = None \/ "w" \notin DOMAIN ds THEN ds
    ELSE [ds EXCEPT !.pred = deviance_tweedie(ds.y, ds.pred, ds.w, p).predicted]

\* lines 203-214 and 216-223 for one of the two mappings
tweedie_statements(split, ds, phi, p) ==
    IF ds = None THEN <<>>
    ELSE <<Stmt(split, "tweedie_deviance",
                subscript(ds, "w", deviance_tweedie(ds.y, ds.pred, ds.w, p).ret)),
           Stmt(split, "hl_tweedie",
                subscript(ds, "w", hl_tweedie(ds.w, ds.y, after_tweedie(ds, p).pred,
                                              DefaultBins, phi, p).ret))>>

\* Nothing catches here: the first exception of lines 203-223 leaves the function.
propagate(st) == IF st.exc = "none" THEN Ok(st.out_dict) ELSE Raise(st.exc)

\* lines 197-225, reg being what model_stats_reg returned and left in train_set
tweedie_after_reg(reg, vs, p) ==
    LET ts == fill_weight(reg.train_set, vs)
        train == block(tweedie_statements("train", ts, PlaceholderPhi, p),
                       1, [out_dict |-> reg.ret.value, exc |-> "none"])
    IN  [ret |-> propagate(block(tweedie_statements("valid", vs, PlaceholderPhi, p), 1, train)),
         train_set |-> after_tweedie(ts, p),
         valid_set |-> IF train.exc = "none" THEN after_tweedie(vs, p) ELSE vs]

\* Returns [ret, train_set, valid_set].
model_stats_tweedie(ts0, vs, p, si_t, si_v) ==
    tweedie_after_reg(model_stats_reg(ts0, vs, si_t, si_v), vs, p)

(* -------------------- the report builders called ---------------------- *)
Ramp(n) == Array([i \in 1..n |-> 2 * (i - 1)])

\* A mapping {'y', 'pred'} or {'y', 'pred', 'w'} whose arrays have up to
\* MaxRows entries each, not necessarily of one length.
DataSets ==
    {[y |-> Fill(a, 2), pred |-> Ramp(b)] : a, b \in 1..MaxRows}
    \cup {[y |-> Fill(a, 2), pred |-> Ramp(b), w |-> Fill(c, 2)] : a, b, c \in 1..MaxRows}

InitReport ==
    /\ weight = <<>>
    /\ actual = <<>>
    /\ predicted = <<>>
    /\ train_set \in DataSets
    /\ valid_set \in DataSets \cup {None}
    /\ call = "none"
    /\ args = NoArgs
    /\ result = Ok(None)
    /\ history = <<>>

SortOrders(ds) == IF ds = None THEN {<<>>} ELSE argsort_desc(ds.pred)

ModelStatsReg ==
    /\ Len(history) < MaxCalls
    /\ \E si_t \in SortOrders(train_set), si_v \in SortOrders(valid_set) :
        /\ call' = "model_stats_reg"
        /\ args' = [train_set |-> train_set, valid_set |-> valid_set, p |-> 0,
                    si_t |-> si_t, si_v |-> si_v]
        /\ LET r == model_stats_reg(train_set, valid_set, si_t, si_v)
           IN  result' = r.ret /\ train_set' = r.train_set
        /\ history' = Append(history, result')
        /\ UNCHANGED <<weight, actual, predicted, valid_set>>

ModelStatsTweedie ==
    /\ Len(history) < MaxCalls
    /\ \E si_t \in SortOrders(train_set), si_v \in SortOrders(valid_set), p \in PowerVals :
        /\ call' = "model_stats_tweedie"
        /\ args' = [train_set |-> train_set, valid_set |-> valid_set, p |-> p,
                    si_t |-> si_t, si_v |-> si_v]
        /\ LET r == model_stats_tweedie(train_set, valid_set, p, si_t, si_v)
           IN  result' = r.ret /\ train_set' = r.train_set /\ valid_set' = r.valid_set
        /\ history' = Append(history, result')
        /\ UNCHANGED <<weight, actual, predicted>>

NextReport == ModelStatsReg \/ ModelStatsTweedie

SpecReport == InitReport /\ [][NextReport]_vars

(* ============================ properties ============================== *)
SameLengths == Len(weight) = Len(actual) /\ Len(actual) = Len(predicted)

ClampingCalls == {"hl_tweedie_df", "hl_tweedie", "deviance_tweedie"}

\* C1: after a call of deviance_tweedie, hl_tweedie or hl_tweedie_df the
\* caller's predicted array holds exactly the values it held when the call was
\* made; the replacement of the entries <= 0 by the epsilon reaches only the
\* local copy.
C1_CallerPredictedUnchanged ==
    call \in ClampingCalls => predicted = args.predicted

\* A clamping call that returned, made on a predicted array with an entry <= 0.
C1_Witness ==
    /\ call \in ClampingCalls
    /\ result.status = "ok"
    /\ \E i \in 1..Len(args.predicted) : args.predicted[i] <= 0

\* C2: a call of weighted_gini or weighted_rmse whose three arrays do not all
\* have one length ends in an error and returns no number (the calls of
\* hl_tweedie are those of SpecHl, where every such call raises).
C2_MismatchedLengthsRaise ==
    (call \in {"weighted_gini", "weighted_rmse"} /\ ~SameLengths)
        => result.status = "raise"

\* The metric statements of the call of a report builder just made, in the
\* order model_stats_reg executes them, with what each computes.
RegSteps ==
    train_statements(fill_weight(args.train_set, args.valid_set),
                     has_weight(args.train_set), args.si_t)
    \o valid_statements(args.valid_set, args.si_v)

FailedSteps == {i \in 1..Len(RegSteps) : RegSteps[i].r.status = "raise"}

\* The steps in front of the first failing one.
ComputedSteps == {i \in 1..Len(RegSteps) : \A j \in 1..i : RegSteps[j].r.status = "ok"}

ComputedKeys(split) == {RegSteps[i].key : i \in {j \in ComputedSteps : RegSteps[j].split = split}}

\* C3: when a metric computation of model_stats_reg fails, the call still
\* returns a report, with the two keys 'train' and 'valid', holding every
\* metric computed before the failing step (as a one-element list of its
\* value) and none from the failing step on.
C3_PartialReportReturned ==
    (call = "model_stats_reg" /\ FailedSteps # {}) =>
        /\ result.status = "ok"
        /\ DOMAIN result.value = {"train", "valid"}
        /\ \A split \in {"train", "valid"} :
            /\ DOMAIN result.value[split] = ComputedKeys(split)
            /\ \A i \in ComputedSteps :
                RegSteps[i].split = split
                    => result.value[split][RegSteps[i].key] = <<RegSteps[i].r.value>>

\* A call of model_stats_reg in which a step failed after others had succeeded.
C3_Witness ==
    /\ call = "model_stats_reg"
    /\ FailedSteps # {}
    /\ ComputedSteps # {}
    /\ result.status = "ok"

\* C4: model_stats_reg called with a train_set without 'w' (its y and pred of
\* one length N >= 1) and with valid_set = None returns a report whose 'train'
\* entry has exactly rmse, mae, gini and weighted_rmse, each a one-element
\* list, and whose 'valid' entry is empty.
C4_TrainOnlyReport ==
    (/\ call = "model_stats_reg"
     /\ "w" \notin DOMAIN args.train_set
     /\ args.valid_set = None
     /\ Len(args.train_set.y) = Len(args.train_set.pred)
     /\ Len(args.train_set.y) >= 1) =>
        /\ result.status = "ok"
        /\ DOMAIN result.value.train = {"rmse", "mae", "gini", "weighted_rmse"}
        /\ \A k \in DOMAIN result.value.train : Len(result.value.train[k]) = 1
        /\ DOMAIN result.value.valid = {}

\* Such a call, made and returned.
C4_Witness ==
    /\ call = "model_stats_reg"
    /\ "w" \notin DOMAIN args.train_set
    /\ args.valid_set = None
    /\ Len(args.train_set.y) = Len(args.train_set.pred)
    /\ result.status = "ok"
    /\ "weighted_rmse" \in DOMAIN result.value.train

\* C5: in the report of a call of model_stats_reg without inner failure, the
\* 'train' entry has weighted_rmse if and only if train_set had the key 'w'
\* when the call was made.
C5_WeightedRmseIffSupplied ==
    (call = "model_stats_reg" /\ FailedSteps = {}) =>
        ("weighted_rmse" \in DOMAIN result.value.train <=> "w" \in DOMAIN args.train_set)

\* C6: after a call of model_stats_reg or model_stats_tweedie the caller's
\* train_set and valid_set have the keys and values they had before the call.
C6_InputsUnchanged ==
    call \in {"model_stats_reg", "model_stats_tweedie"}
        => train_set = args.train_set /\ valid_set = args.valid_set

\* The cut points (doubled) of the call of hl_tweedie_df or hl_tweedie just made.
CutPointsOfCall == quantile2(args.predicted, weight, args.bins)

\* How many of the cut points the value v strictly exceeds.
Exceeded(v) == Cardinality({k \in 1..Len(CutPointsOfCall) : CutPointsOfCall[k] < 2 * v})

\* C7: hl_tweedie_df gives every observation the bin id equal to the number
\* of the bins-1 cut points that its predicted value strictly exceeds; the
\* bin id lies in 0..bins-1 and an observation equal to a cut point falls in
\* the lower bin.
C7_BinIsCutPointsExceeded ==
    (call = "hl_tweedie_df" /\ result.status = "ok") =>
        /\ Len(result.value) = Len(args.predicted)
        /\ Len(CutPointsOfCall) = args.bins - 1
        /\ \A i \in 1..Len(result.value) :
            /\ result.value[i].quantile = Exceeded(args.predicted[i])
            /\ result.value[i].quantile \in 0..(args.bins - 1)

\* A call in which one observation equals a cut point and one exceeds a cut point.
C7_Witness ==
    /\ call = "hl_tweedie_df"
    /\ result.status = "ok"
    /\ \E i \in 1..Len(result.value), k \in 1..Len(CutPointsOfCall) :
        CutPointsOfCall[k] = 2 * args.predicted[i]
    /\ \E i \in 1..Len(result.value) : result.value[i].quantile >= 1

\* C8: hl_tweedie_df takes the cut points from the unclamped predicted array
\* and finds each observation's bin by searching them with its clamped
\* value, so that two observations whose predicted values are both <= 0 get
\* the same bin id.
C8_BinOfClampedValue ==
    (call = "hl_tweedie_df" /\ result.status = "ok") =>
        /\ \A i \in 1..Len(result.value) :
            result.value[i].quantile = Exceeded(Clamped(args.predicted)[i])
        /\ \A i, j \in 1..Len(result.value) :
            (args.predicted[i] <= 0 /\ args.predicted[j] <= 0)
                => result.value[i].quantile = result.value[j].quantile

\* The rows hl_tweedie grouped in the call just made, and per bin id the
\* total weight of its rows.
DfOfCall == hl_tweedie_df(weight, actual, args.predicted, args.bins).ret.value

BinWeight(q) == SumSeq(Column(RowsOf(DfOfCall, q), "weight"))

PositiveBins == SortedSeq({q \in 0..(args.bins - 1) : BinWeight(q) > 0})

ZeroWeightBins ==
    {q \in {DfOfCall[i].quantile : i \in 1..Len(DfOfCall)} : BinWeight(q) = 0}

\* C9: hl_tweedie on three arrays of one length N >= 1 raises no error, and
\* what it returns is the sum of the chi-square terms of the bins of positive
\* total weight only: a bin of total weight zero contributes nothing.
C9_ZeroWeightBinSkipped ==
    (call = "hl_tweedie" /\ SameLengths /\ Len(args.predicted) >= 1) =>
        /\ result.status = "ok"
        /\ result.value =
            FSum([j \in 1..Len(PositiveBins) |->
                    chi_sq_tweedie(args.phi, args.p, RowsOf(DfOfCall, PositiveBins[j]))])

\* A call with a bin of total weight zero and a bin whose term is not zero.
C9_Witness ==
    /\ call = "hl_tweedie"
    /\ result.status = "ok"
    /\ ZeroWeightBins # {}
    /\ Len(PositiveBins) >= 1
    /\ result.value.k = "num"
    /\ result.value.n # 0

\* The denominator cumulative_weight[-1] * cumulative_actual[-1] of the call
\* of weighted_gini just made.
GiniDenominator ==
    SumSeq(Take(weight, args.sort_index))
        * SumSeq(ArrMul(Take(weight, args.sort_index), Take(actual, args.sort_index)))

\* C10: weighted_gini called with inputs whose denominator is zero, for any
\* N >= 1, ends in an error or returns NaN or an infinity, never the number 0.
C10_ZeroDenominatorNotZero ==
    (call = "weighted_gini" /\ result.status = "ok" /\ GiniDenominator = 0)
        => result.value.k \in {"nan", "inf"}

\* The call on one observation of weight zero.
C10_Witness ==
    /\ call = "weighted_gini"
    /\ Len(predicted) = 1
    /\ Len(actual) = 1
    /\ weight = <<0>>
    /\ result = Ok(NaN)

\* The all-ones array as long as the valid_set['y'] of the call just made.
OnesOfValid == [i \in 1..Len(args.valid_set.y) |-> 1]

\* C11: when model_stats_reg is called with a train_set without 'w' and a
\* valid_set, the weights of the train metrics are all ones and as many as
\* valid_set['y'] has entries, whatever the length of train_set['y']: they are
\* what the call leaves in train_set['w'], and the gini and weighted_rmse of
\* the 'train' entry are those of that weight array.
C11_FallbackWeightOfValidLength ==
    (/\ call = "model_stats_reg"
     /\ "w" \notin DOMAIN args.train_set
     /\ args.valid_set # None) =>
        /\ train_set.w = OnesOfValid
        /\ "gini" \in DOMAIN result.value.train =>
            result.value.train.gini =
                <<weighted_gini(OnesOfValid, args.train_set.y, args.train_set.pred,
                                args.si_t).value>>
        /\ "weighted_rmse" \in DOMAIN result.value.train =>
            result.value.train.weighted_rmse =
                <<weighted_rmse(OnesOfValid, args.train_set.y, args.train_set.pred).value>>

\* Such a call in which valid_set['y'] and train_set['y'] differ in length
\* and the train gini and weighted_rmse were computed.
C11_Witness ==
    /\ call = "model_stats_reg"
    /\ "w" \notin DOMAIN args.train_set
    /\ args.valid_set # None
    /\ Len(args.valid_set.y) # Len(args.train_set.y)
    /\ {"gini", "weighted_rmse"} \subseteq DOMAIN result.value.train

\* Every weight is the same positive value.
EqualPositiveWeights ==
    /\ Len(weight) >= 1
    /\ \A i \in 1..Len(weight) : weight[i] = weight[1] /\ weight[i] > 0

\* C12: for a weight array whose entries all equal one positive value,
\* weighted_gini returns what it returns for the all-ones weight array on the
\* same actual and predicted arrays (the order drawn from predicted does not
\* depend on the weights, so both calls rank by the same order).
C12_EqualWeightsAsOnes ==
    (call = "weighted_gini" /\ EqualPositiveWeights) =>
        result = weighted_gini([i \in 1..Len(weight) |-> 1], actual, predicted,
                               args.sort_index)

\* A call with every weight 2 that returned a gini other than 0.
C12_Witness ==
    /\ call = "weighted_gini"
    /\ EqualPositiveWeights
    /\ weight[1] = 2
    /\ result.status = "ok"
    /\ result.value.k = "num"
    /\ result.value.n # 0

NonNegative(a) == \A i \in 1..Len(a) : a[i] >= 0

\* C13: for non-negative weights and actuals and a denominator other than
\* zero, what weighted_gini returns lies in [0, 1], for every order the sort
\* on predicted can produce.
C13_GiniInUnitInterval ==
    (/\ call = "weighted_gini"
     /\ result.status = "ok"
     /\ NonNegative(weight)
     /\ NonNegative(actual)
     /\ GiniDenominator # 0) =>
        /\ result.value.k = "num"
        /\ 0 <= result.value.n
        /\ result.value.n <= result.value.d

\* A call on such inputs, two of them tied in predicted, whose sum_b - sum_a
\* is negative and which returned a gini above 0.
C13_Witness ==
    /\ call = "weighted_gini"
    /\ result.status = "ok"
    /\ NonNegative(weight)
    /\ NonNegative(actual)
    /\ SameLengths
    /\ GiniDenominator # 0
    /\ \E i, j \in 1..Len(predicted) : i # j /\ predicted[i] = predicted[j]
    /\ gini_sum_b(cumsum(Take(weight, args.sort_index)),
                  cumsum(ArrMul(Take(weight, args.sort_index), Take(actual, args.sort_index))))
        < gini_sum_a(cumsum(Take(weight, args.sort_index)),
                     cumsum(ArrMul(Take(weight, args.sort_index), Take(actual, args.sort_index))))
    /\ result.value.n > 0

\* C14: model_stats_reg called twice in succession on the same train_set
\* mapping, which had no 'w' before the first call, and the same valid_set
\* returns the second time the report it returned the first time (the same
\* metric keys with equal values).
C14_SecondCallSameReport ==
    [][(/\ call = "model_stats_reg"
        /\ "w" \notin DOMAIN args.train_set
        /\ call' = "model_stats_reg"
        /\ Len(history') = Len(history) + 1) => result' = result]_vars

====
